---- MODULE Spec2Model ----
(***************************************************************************)
(* Model of the memory-mapping engine of src/unnamed/part_000 (SysUtil):   *)
(* getFileStartAndLength, sysMapFD, sysMapBlockFile, sysMapFile,           *)
(* sysReleaseMap.                                                          *)
(*                                                                         *)
(* size_t is an unsigned integer of SizeBits bits and loff_t/off64_t a     *)
(* signed integer of the same width (the LP64 build, scaled down).         *)
(* Addresses are natural numbers; the kernel hands out the bases in Bases. *)
(* The contents of the files are inputs: they are drawn when the code      *)
(* reads them (a header when fscanf parses it, an extent line when the     *)
(* loop reads it), which is the same as drawing the whole file up front.   *)
(***************************************************************************)
EXTENDS Integers, Sequences, FiniteSets, TLC

\* ---- bounds of the model ------------------------------------------------
SizeBits == 3
MaxBlkSize == 2
MaxRanges == 2
MaxFileSize == 3

\* ---- integer types --------------------------------------------------------
SizeMod == 2 ^ SizeBits
SIZE_MAX == SizeMod - 1
OFF_MAX == 2 ^ (SizeBits - 1) - 1

\* a value converted to size_t (unsigned, wraps)
SizeT(x) == x % SizeMod

\* a value converted to off64_t (signed two's complement of the same width)
Off64(x) == LET m == x % SizeMod IN IF m > OFF_MAX THEN m - SizeMod ELSE m

\* conversion of an int return value to the bool return type of sysMapFD
BoolOf(v) == v # 0

NULL == 0
MAP_FAILED == -1

\* bases mmap(NULL, ...) may return; distinct spans never overlap
Bases == {SizeMod, 2 * SizeMod}

\* extent start blocks drawn for the extent lines (small, zero, and large
\* enough for start * blksize to leave the range of off64_t)
ExtStarts == {0, 1, 2 ^ (SizeBits - 1)}

Span(a, n) == a .. (a + n - 1)

VARIABLES
    pc,            \* position of the caller inside sysMapFile
    mode,          \* "none" | "file" | "block": which strategy fn selected
    ret,           \* value returned by sysMapFile (meaningful at pc = "done")
    pMap,          \* the caller's MemMapping
    heap,          \* arrays handed out by malloc/calloc, by pointer value
    mem,           \* the address space: mapped byte -> what backs it
    fdOpen,        \* descriptors and streams currently open
    fdCloses,      \* how often each was closed
    size, blksize, blocks, range_count,   \* locals of sysMapBlockFile
    i, reserve, next, remaining_size, success,
    fileSize,      \* size of the regular file (direct mode input)
    extents,       \* history: the extent lines parsed so far, in file order
    nlines,        \* history: number of extent lines in the descriptor file,
                   \*          -1 while the run has not determined it
    maps,          \* history: the MAP_FIXED requests issued
    log,           \* history: resource operations performed, in order
    cause,         \* history: the step that failed ("none" if none)
    faults,        \* history: the system calls of the direct-file run that
                   \*          the environment made fail
    fdOpens,       \* history: how often each descriptor or stream was opened
    seeks,         \* history: which of the three lseek64 calls failed
    filePos,       \* history: the file position when getFileStartAndLength
                   \*          returned
    nrel,          \* number of sysReleaseMap calls made so far: 0, 1, or 2
                   \*   for two and more
    unmaps,        \* history: the munmap calls of the last sysReleaseMap
    relIn,         \* history: the handle as the last sysReleaseMap received it
    call,          \* number of the sysMapFile call (1, or 2 when mapping again)
    first          \* history: input and result of the first sysMapFile call

vars == <<pc, mode, ret, pMap, heap, mem, fdOpen, fdCloses,
          size, blksize, blocks, range_count, i, reserve, next,
          remaining_size, success, fileSize, extents, nlines, maps, log, cause,
          faults, fdOpens, seeks, filePos, nrel, unmaps, relIn, call, first>>

blkLocals == <<size, blksize, blocks, range_count, i, reserve, next,
               remaining_size, success>>

fileHist == <<seeks, filePos>>
relVars == <<nrel, unmaps, relIn>>
callVars == <<call, first>>

\* the address space with nothing mapped
EmptyMem == [x \in {} |-> <<"anon", 0>>]

\* memset(pMap, 0, sizeof(*pMap))
ZeroMap == [addr |-> 0, length |-> 0, range_count |-> 0, ranges |-> NULL]

\* mutant: sysMapFile does not clear the handle
MemsetSkipped(pm) == pm

\* memset(pMap, 0, sizeof(*pMap)) applied to the handle pm (line 214)
Memset(pm) == ZeroMap

\* what the caller's MemMapping may hold before the first call: a zeroed
\* handle, or whatever the memory held
InitHandles ==
    {ZeroMap,
     [addr |-> 1, length |-> 1, range_count |-> 0, ranges |-> NULL],
     [addr |-> 1, length |-> 1, range_count |-> 1, ranges |-> NULL]}

NoSeekFailed == <<FALSE, FALSE, FALSE>>

NoFirst == [mode |-> "none", fileSize |-> 0, size |-> 0, blksize |-> 0,
            range_count |-> 0, extents |-> <<>>, nlines |-> -1,
            pMap |-> ZeroMap, ranges |-> <<>>, heapLen |-> 0, faults |-> {}]

\* a second sysMapFile call is given the input of the first: x is what this
\* call reads, y what the first call read
SameAsFirst(x, y) == call = 1 \/ x = y

Init ==
    /\ pc = "idle"
    /\ mode = "none"
    /\ ret = 0
    /\ pMap \in InitHandles
    /\ heap = <<>>
    /\ mem = EmptyMem
    /\ fdOpen = {}
    /\ fdCloses = [d \in {"file", "mapf", "dev"} |-> 0]
    /\ size = 0 /\ blksize = 0 /\ blocks = 0 /\ range_count = 0
    /\ i = 0 /\ reserve = 0 /\ next = 0 /\ remaining_size = 0
    /\ success = TRUE
    /\ fileSize = 0
    /\ extents = <<>>
    /\ nlines = -1
    /\ maps = <<>>
    /\ log = <<>>
    /\ cause = "none"
    /\ faults = {}
    /\ fdOpens = [d \in {"file", "mapf", "dev"} |-> 0]
    /\ seeks = NoSeekFailed
    /\ filePos = 0
    /\ nrel = 0
    /\ unmaps = <<>>
    /\ relIn = ZeroMap
    /\ call = 1
    /\ first = NoFirst

\* ---- the operating system ----------------------------------------------
\* mmap: the bytes of [a, a+n) become mapped; byte a+k is backed by byte
\* off+k of the file or device (kind), or by nothing (kind = "anon"); an
\* existing mapping there is replaced (MAP_FIXED)
MmapAt(m, a, n, kind, off) ==
    [x \in (DOMAIN m) \cup Span(a, n) |->
        IF x \in Span(a, n)
        THEN (IF kind = "anon" THEN <<"anon", 0>> ELSE <<kind, off + (x - a)>>)
        ELSE m[x]]

\* munmap(a, n): no byte of [a, a+n) stays mapped
Munmap(m, a, n) == [x \in (DOMAIN m) \ Span(a, n) |-> m[x]]

\* malloc/calloc hand out a fresh array; the pointer is its index in heap
Alloc(h, n) ==
    Append(h, [live |-> TRUE, frees |-> 0,
               elems |-> [k \in 1 .. n |-> [addr |-> 0, length |-> 0]]])

\* free(p); free(NULL) does nothing
Free(h, p) ==
    IF p = NULL THEN h
    ELSE [h EXCEPT ![p].live = FALSE, ![p].frees = @ + 1]

\* an entry of the history log: operation, address or pointer, length
Ev(op, a, n) == [op |-> op, a |-> a, n |-> n]

\* ---- getFileStartAndLength ------------------------------------------------
\* mutant: the length misses the last byte
FileLengthOffByOne(start, end) == SizeT(end - start - 1)

\* length = end - start, a size_t (line 42)
FileLength(start, end) == SizeT(end - start)

\* pos: the descriptor's position on entry; fsize: the file's size;
\* f1, f2, f3: whether the three lseek64 calls fail.
\* Yields the return value, *start_, *length_ and the position on return.
getFileStartAndLength(pos, fsize, f1, f2, f3) ==
    LET start == IF f1 THEN -1 ELSE pos
        end == IF f2 THEN -1 ELSE fsize
        pos2 == IF f2 THEN pos ELSE fsize
        \* lseek64(fd, start, SEEK_SET): a negative offset is EINVAL
        set == IF f3 \/ start < 0 THEN -1 ELSE start
        pos3 == IF set = -1 THEN pos2 ELSE start
        length == FileLength(start, end)
    IN  IF set = -1 \/ start = -1 \/ end = -1
        THEN [r |-> -1, start |-> 0, length |-> 0, pos |-> pos3]
        ELSE IF length = 0
        THEN [r |-> -1, start |-> 0, length |-> 0, pos |-> pos3]
        ELSE [r |-> 0, start |-> start, length |-> length, pos |-> pos3]

\* ---- sysMapFD ---------------------------------------------------------------
\* pm, h, m: the handle, heap and address space on entry; g: the result of
\* getFileStartAndLength; memPtr: what mmap returns; mallocOk: whether
\* malloc succeeds.  Yields the bool returned and the state on return.
sysMapFD(pm, h, m, g, memPtr, mallocOk) ==
    IF g.r < 0
    THEN [r |-> BoolOf(-1), pMap |-> pm, heap |-> h, mem |-> m,
          log |-> <<>>, cause |-> "extent_resolver"]
    ELSE IF memPtr = MAP_FAILED
    THEN [r |-> FALSE, pMap |-> pm, heap |-> h, mem |-> m,
          log |-> <<>>, cause |-> "mmap"]
    ELSE LET m1 == MmapAt(m, memPtr, g.length, "file", g.start)
             pm1 == [addr |-> memPtr, length |-> g.length,
                     range_count |-> 1, ranges |-> NULL]
         IN  IF ~mallocOk
             THEN [r |-> FALSE, pMap |-> pm1, heap |-> h,
                   mem |-> Munmap(m1, memPtr, g.length),
                   log |-> <<Ev("mmap", memPtr, g.length),
                             Ev("munmap", memPtr, g.length)>>,
                   cause |-> "malloc"]
             ELSE LET h1 == Alloc(h, 1)
                      p == Len(h1)
                  IN  [r |-> TRUE,
                       pMap |-> [pm1 EXCEPT !.ranges = p],
                       heap |-> [h1 EXCEPT ![p].elems[1] =
                                    [addr |-> memPtr, length |-> g.length]],
                       mem |-> m1,
                       log |-> <<Ev("mmap", memPtr, g.length),
                                 Ev("malloc", p, 1)>>,
                       cause |-> "none"]

\* a base the kernel may pick for a new mapping of n bytes: nothing of the
\* span is mapped yet
FreeBases(m, n) == {b \in Bases : Span(b, n) \cap DOMAIN m = {}}

\* ---- sysMapFile, regular file (lines 214, 232-247) --------------------------
SysMapFileRegular ==
    /\ pc = "idle"
    /\ SameAsFirst("file", first.mode)
    /\ \E openOk \in BOOLEAN,
          n \in {k \in 0 .. MaxFileSize : SameAsFirst(k, first.fileSize)},
          f1 \in BOOLEAN, f2 \in BOOLEAN, f3 \in BOOLEAN,
          mallocOk \in BOOLEAN :
          LET g == getFileStartAndLength(0, n, f1, f2, f3) IN
          \E memPtr \in FreeBases(mem, g.length) \cup {MAP_FAILED} :
          LET res == sysMapFD(Memset(pMap), heap, mem, g, memPtr, mallocOk) IN
          /\ mode' = "file"
          /\ fileSize' = n
          /\ faults' = {f \in {"open", "lseek", "mmap", "malloc"} :
                           \/ f = "open" /\ ~openOk
                           \/ f = "lseek" /\ openOk /\ (f1 \/ f2 \/ f3)
                           \/ f = "mmap" /\ openOk /\ res.cause = "mmap"
                           \/ f = "malloc" /\ openOk /\ res.cause = "malloc"}
          /\ IF ~openOk
             THEN /\ pMap' = Memset(pMap)
                  /\ ret' = -1
                  /\ cause' = "open"
                  /\ seeks' = NoSeekFailed
                  /\ filePos' = 0
                  /\ UNCHANGED <<heap, mem, fdOpen, fdCloses, log, fdOpens>>
             ELSE /\ pMap' = res.pMap
                  /\ heap' = res.heap
                  /\ mem' = res.mem
                  /\ log' = log \o <<Ev("open_file", 0, 0)>> \o res.log
                                \o <<Ev("close_file", 0, 0)>>
                  /\ cause' = res.cause
                  /\ fdOpen' = fdOpen
                  /\ fdOpens' = [fdOpens EXCEPT !["file"] = @ + 1]
                  /\ fdCloses' = [fdCloses EXCEPT !["file"] = @ + 1]
                  /\ seeks' = <<f1, f2, f3>>
                  /\ filePos' = g.pos
                  /\ ret' = IF ~res.r THEN -1 ELSE 0
    /\ pc' = "done"
    /\ UNCHANGED <<blkLocals, extents, nlines, maps, relVars, callVars>>

\* ---- sysMapFile, block map: fopen (lines 214-222) --------------------------
SysMapFileBlockOpen ==
    /\ pc = "idle"
    /\ SameAsFirst("block", first.mode)
    /\ mode' = "block"
    /\ pMap' = Memset(pMap)
    /\ \E openOk \in BOOLEAN :
          IF openOk
          THEN /\ fdOpen' = fdOpen \cup {"mapf"}
               /\ fdOpens' = [fdOpens EXCEPT !["mapf"] = @ + 1]
               /\ pc' = "header"
               /\ UNCHANGED <<ret, cause>>
          ELSE /\ ret' = -1
               /\ cause' = "fopen"
               /\ pc' = "done"
               /\ UNCHANGED <<fdOpen, fdOpens>>
    /\ UNCHANGED <<heap, mem, fdCloses, blkLocals, fileSize, extents, nlines,
                   maps, log, faults, fileHist, relVars, callVars>>

\* mutant: sysMapFile returns without closing the stream
ReturnFromBlockFileNoClose(r, c, fds, closes) ==
    /\ ret' = (IF r # 0 THEN -1 ELSE 0)
    /\ cause' = c
    /\ fdOpen' = fds
    /\ fdCloses' = closes
    /\ pc' = "done"

\* sysMapBlockFile returned r: sysMapFile closes the stream and returns
\* (lines 224-230, 247)
ReturnFromBlockFile(r, c, fds, closes) ==
    /\ ret' = (IF r # 0 THEN -1 ELSE 0)
    /\ cause' = c
    /\ fdOpen' = fds \ {"mapf"}
    /\ fdCloses' = [closes EXCEPT !["mapf"] = @ + 1]
    /\ pc' = "done"

\* mutant: rounds up even when size is a whole number of blocks
BlocksOfFloor(sz, bs, old) == IF bs # 0 THEN SizeT(sz \div bs + 1) ELSE old

\* blocks as computed at lines 121-123 (left as it was when blksize = 0)
BlocksOf(sz, bs, old) == IF bs # 0 THEN SizeT(SizeT(sz - 1) \div bs + 1) ELSE old

\* mutant: the overflow guard on blocks * blksize is missing
HeaderInvalidNoOverflow(sz, bs, blks, rc) == sz = 0 \/ bs = 0 \/ rc = 0

\* mutant: a range count of zero is let through
HeaderInvalidNoCount(sz, bs, blks, rc) ==
    sz = 0 \/ bs = 0 \/ blks > SIZE_MAX \div bs

\* the check of line 124
HeaderInvalid(sz, bs, blks, rc) ==
    sz = 0 \/ bs = 0 \/ blks > SIZE_MAX \div bs \/ rc = 0

\* ---- sysMapBlockFile: device line and header (lines 106-128) ----------------
BlockHeader ==
    /\ pc = "header"
    /\ \/ /\ call = 1
          /\ ReturnFromBlockFile(-1, "fgets", fdOpen, fdCloses)
          /\ UNCHANGED blkLocals
       \/ /\ call = 1
          /\ ReturnFromBlockFile(-1, "header_parse", fdOpen, fdCloses)
          /\ UNCHANGED blkLocals
       \/ \E sz \in 0 .. SIZE_MAX, bs \in 0 .. MaxBlkSize, rc \in 0 .. MaxRanges :
            LET blks == BlocksOf(sz, bs, blocks) IN
            /\ SameAsFirst(<<sz, bs, rc>>,
                           <<first.size, first.blksize, first.range_count>>)
            /\ size' = sz
            /\ blksize' = bs
            /\ range_count' = rc
            /\ blocks' = blks
            /\ IF HeaderInvalid(sz, bs, blks, rc)
               THEN ReturnFromBlockFile(-1, "header_invalid", fdOpen, fdCloses)
               ELSE /\ pc' = "calloc"
                    /\ UNCHANGED <<ret, cause, fdOpen, fdCloses>>
            /\ UNCHANGED <<i, reserve, next, remaining_size, success>>
    /\ UNCHANGED <<fdOpens, fileHist, relVars, callVars, faults>>
    /\ UNCHANGED <<mode, pMap, heap, mem, fileSize, extents, nlines, maps, log>>

\* ---- sysMapBlockFile: the range array (lines 130-135) -----------------------
BlockCalloc ==
    /\ pc = "calloc"
    /\ \E ok \in BOOLEAN :
          IF ok
          THEN LET h1 == Alloc(heap, range_count) IN
               /\ heap' = h1
               /\ pMap' = [pMap EXCEPT !.range_count = range_count,
                                       !.ranges = Len(h1)]
               /\ log' = Append(log, Ev("calloc", Len(h1), range_count))
               /\ pc' = "reserve"
               /\ UNCHANGED <<ret, cause, fdOpen, fdCloses>>
          ELSE /\ pMap' = [pMap EXCEPT !.range_count = range_count,
                                       !.ranges = NULL]
               /\ ReturnFromBlockFile(-1, "calloc", fdOpen, fdCloses)
               /\ UNCHANGED <<heap, log>>
    /\ UNCHANGED <<fdOpens, fileHist, relVars, callVars, faults>>
    /\ UNCHANGED <<mode, mem, blkLocals, fileSize, extents, nlines, maps>>

\* ---- sysMapBlockFile: the reservation (lines 137-149) -----------------------
BlockReserve ==
    /\ pc = "reserve"
    /\ LET span == SizeT(blocks * blksize) IN
       \E r \in FreeBases(mem, span) \cup {MAP_FAILED} :
          IF r = MAP_FAILED
          THEN /\ heap' = Free(heap, pMap.ranges)
               /\ log' = Append(log, Ev("free", pMap.ranges, 0))
               /\ ReturnFromBlockFile(-1, "reserve", fdOpen, fdCloses)
               /\ UNCHANGED <<mem, reserve>>
          ELSE /\ mem' = MmapAt(mem, r, span, "anon", 0)
               /\ reserve' = r
               /\ log' = Append(log, Ev("reserve", r, span))
               /\ pc' = "open"
               /\ UNCHANGED <<ret, cause, fdOpen, fdCloses, heap>>
    /\ UNCHANGED <<fdOpens, fileHist, relVars, callVars, faults>>
    /\ UNCHANGED <<mode, pMap, size, blksize, blocks, range_count, i, next,
                   remaining_size, success, fileSize, extents, nlines, maps>>

\* ---- sysMapBlockFile: the block device (lines 151-161) ----------------------
BlockOpenDevice ==
    /\ pc = "open"
    /\ LET span == SizeT(blocks * blksize) IN
       \E ok \in BOOLEAN :
          IF ok
          THEN /\ fdOpen' = fdOpen \cup {"dev"}
               /\ fdOpens' = [fdOpens EXCEPT !["dev"] = @ + 1]
               /\ next' = reserve
               /\ remaining_size' = span
               /\ success' = TRUE
               /\ i' = 0
               /\ log' = Append(log, Ev("open_dev", 0, 0))
               /\ pc' = "loop"
               /\ UNCHANGED <<ret, cause, fdCloses, heap, mem>>
          ELSE /\ mem' = Munmap(mem, reserve, span)
               /\ heap' = Free(heap, pMap.ranges)
               /\ log' = log \o <<Ev("munmap", reserve, span),
                                   Ev("free", pMap.ranges, 0)>>
               /\ ReturnFromBlockFile(-1, "open_dev", fdOpen, fdCloses)
               /\ UNCHANGED <<next, remaining_size, success, i, fdOpens>>
    /\ UNCHANGED <<fileHist, relVars, callVars, faults>>
    /\ UNCHANGED <<mode, pMap, size, blksize, blocks, range_count, reserve,
                   fileSize, extents, nlines, maps>>

\* length as computed at line 169
ExtentLength(start, end, bs) == SizeT(SizeT(end - start) * bs)

\* mutant: the extent is not compared with the bytes still remaining
ExtentInvalidNoRemaining(start, end, bs, remaining) ==
    \/ end <= start
    \/ SizeT(end - start) > SIZE_MAX \div bs

\* mutant: the overflow guard on (end - start) * blksize is missing
ExtentInvalidNoOverflowGuard(start, end, bs, remaining) ==
    \/ end <= start
    \/ ExtentLength(start, end, bs) > remaining

\* the check of line 170
ExtentInvalid(start, end, bs, remaining) ==
    \/ end <= start
    \/ SizeT(end - start) > SIZE_MAX \div bs
    \/ ExtentLength(start, end, bs) > remaining

\* the device offset passed to mmap at lines 176/179: ((off64_t)start)*blksize
DeviceOffset(start, bs) == Off64(Off64(start) * bs)

\* mutant: only the part of the reservation filled so far is unmapped
UnwindLengthFilled == SizeT(next - reserve)

\* the length passed to munmap when the walk failed (line 198)
UnwindLength == SizeT(blocks * blksize)

\* whether a mapping of the device at offset off may succeed: the kernel
\* refuses a negative offset, and may fail any request
MmapOutcomes(off) == IF off < 0 THEN {FALSE} ELSE BOOLEAN

\* the loop exits when the condition of line 162 fails
AfterIteration(k) == IF k < range_count THEN "loop" ELSE "after"

\* ---- sysMapBlockFile: one iteration of the extent loop (lines 162-191) ------
BlockExtent ==
    /\ pc = "loop"
    /\ i < range_count
    /\ \/ \* the stream ends here: fscanf does not return 2
          /\ call = 1
          /\ nlines' = i
          /\ success' = FALSE
          /\ cause' = "extent_parse"
          /\ pc' = "after"
          /\ UNCHANGED <<extents, maps, mem, heap, next, remaining_size, i, log>>
       \/ \* a line that is not two numbers: fscanf does not return 2
          /\ call = 1
          /\ success' = FALSE
          /\ cause' = "extent_parse"
          /\ pc' = "after"
          /\ UNCHANGED <<extents, nlines, maps, mem, heap, next,
                         remaining_size, i, log>>
       \/ \E start \in ExtStarts, end \in 0 .. SIZE_MAX :
            LET length == ExtentLength(start, end, blksize) IN
            /\ call = 2 => [start |-> start, end |-> end] = first.extents[i + 1]
            /\ extents' = Append(extents, [start |-> start, end |-> end])
            /\ UNCHANGED nlines
            /\ IF ExtentInvalid(start, end, blksize, remaining_size)
               THEN /\ success' = FALSE
                    /\ cause' = "extent_invalid"
                    /\ pc' = "after"
                    /\ UNCHANGED <<maps, mem, heap, next, remaining_size, i, log>>
               ELSE \E ok \in MmapOutcomes(DeviceOffset(start, blksize)) :
                    /\ maps' = Append(maps,
                                  [addr |-> next,
                                   len |-> ExtentLength(start, end, blksize),
                                   off |-> DeviceOffset(start, blksize),
                                   ok |-> ok])
                    /\ IF ~ok
                       THEN /\ success' = FALSE
                            /\ cause' = "mmap_fixed"
                            /\ pc' = "after"
                            /\ UNCHANGED <<mem, heap, next, remaining_size, i, log>>
                       ELSE /\ mem' = MmapAt(mem, next, length, "dev",
                                             DeviceOffset(start, blksize))
                            /\ heap' = [heap EXCEPT ![pMap.ranges].elems[i + 1] =
                                           [addr |-> next, length |-> length]]
                            /\ log' = Append(log, Ev("mmap_fixed", next, length))
                            /\ next' = next + length
                            /\ remaining_size' = SizeT(remaining_size - length)
                            /\ i' = i + 1
                            /\ pc' = AfterIteration(i + 1)
                            /\ UNCHANGED <<success, cause>>
    /\ UNCHANGED <<fdOpens, fileHist, relVars, callVars, faults>>
    /\ UNCHANGED <<mode, ret, pMap, fdOpen, fdCloses, size, blksize, blocks,
                   range_count, reserve, fileSize>>

\* ---- sysMapBlockFile: after the loop (lines 192-209), and the return of ---
\* ---- sysMapFile (lines 224-230, 247) ----------------------------------------
BlockFinish ==
    /\ pc = "after"
    /\ LET ok == success /\ ~(remaining_size # 0)
       IN  IF ~ok
           THEN /\ success' = FALSE
                /\ mem' = Munmap(mem, reserve, UnwindLength)
                /\ heap' = Free(heap, pMap.ranges)
                /\ log' = log \o <<Ev("close_dev", 0, 0),
                                    Ev("munmap", reserve, UnwindLength),
                                    Ev("free", pMap.ranges, 0)>>
                /\ ReturnFromBlockFile(-1,
                       IF success THEN "remaining" ELSE cause,
                       fdOpen \ {"dev"},
                       [fdCloses EXCEPT !["dev"] = @ + 1])
                /\ UNCHANGED <<pMap, nlines>>
           ELSE /\ pMap' = [pMap EXCEPT !.addr = reserve, !.length = size]
                /\ log' = Append(log, Ev("close_dev", 0, 0))
                /\ ReturnFromBlockFile(0, cause, fdOpen \ {"dev"},
                       [fdCloses EXCEPT !["dev"] = @ + 1])
                \* what the stream still holds is never looked at: it may
                \* hold further extent lines
                /\ \E extra \in 0 .. 1 :
                      /\ SameAsFirst(range_count + extra, first.nlines)
                      /\ nlines' = range_count + extra
                /\ UNCHANGED <<success, mem, heap>>
    /\ UNCHANGED <<fdOpens, fileHist, relVars, callVars, faults>>
    /\ UNCHANGED <<mode, size, blksize, blocks, range_count, i, reserve, next,
                   remaining_size, fileSize, extents, maps>>

\* ---- sysReleaseMap (lines 253-265) ------------------------------------------
\* mutant: every range is unmapped at the base address of the handle
UnmapRequestAtBase(r) == [addr |-> pMap.addr, length |-> r.length]

\* the arguments of the munmap call for Range Descriptor r (line 257)
UnmapRequest(r) == [addr |-> r.addr, length |-> r.length]

\* whether munmap may succeed in the address space m: a zero length is
\* EINVAL, unmapping where nothing is mapped succeeds, and the kernel may
\* fail a request that takes mapped bytes away (it may have to split a
\* mapping)
MunmapOutcomes(m, q) ==
    IF q.length = 0 THEN {FALSE}
    ELSE IF Span(q.addr, q.length) \cap DOMAIN m = {} THEN {TRUE}
    ELSE BOOLEAN

\* mutant: range_count is not reset
ReleasedHandleKeepCount(pm) == [pm EXCEPT !.ranges = NULL]

\* mutant: ranges is not reset
ReleasedHandleKeepRanges(pm) == [pm EXCEPT !.range_count = 0]

\* the handle after lines 263-264
ReleasedHandle(pm) == [pm EXCEPT !.ranges = NULL, !.range_count = 0]

\* the address space after the munmap calls qs; those with ok succeeded
RECURSIVE UnmapAll(_, _)
UnmapAll(m, qs) ==
    IF qs = <<>> THEN m
    ELSE UnmapAll(IF qs[1].ok THEN Munmap(m, qs[1].addr, qs[1].length) ELSE m,
                  Tail(qs))

\* mutant: the loop stops at the first munmap that fails
RECURSIVE UnmapRunsStopAtFailure(_, _)
UnmapRunsStopAtFailure(m, rs) ==
    IF rs = <<>> THEN {<<>>}
    ELSE LET q == UnmapRequest(rs[1]) IN
         UNION {{<<[addr |-> q.addr, length |-> q.length, ok |-> ok]>> \o t :
                   t \in IF ok
                         THEN UnmapRunsStopAtFailure(
                                  Munmap(m, q.addr, q.length), Tail(rs))
                         ELSE {<<>>}} :
                ok \in MunmapOutcomes(m, q)}

\* the runs of the loop of lines 256-261 over the entries rs, starting in
\* the address space m: the munmap calls, each with its outcome
RECURSIVE UnmapRuns(_, _)
UnmapRuns(m, rs) ==
    IF rs = <<>> THEN {<<>>}
    ELSE LET q == UnmapRequest(rs[1]) IN
         UNION {{<<[addr |-> q.addr, length |-> q.length, ok |-> ok]>> \o t :
                   t \in UnmapRuns(IF ok THEN Munmap(m, q.addr, q.length)
                                         ELSE m,
                                   Tail(rs))} :
                ok \in MunmapOutcomes(m, q)}

\* the handle cannot be walked at all: ranges is NULL, or the array is
\* shorter than range_count
Unreadable(pm) ==
    /\ pm.range_count > 0
    /\ IF pm.ranges = NULL THEN TRUE
       ELSE pm.range_count > Len(heap[pm.ranges].elems)

\* the array behind pm.ranges has been freed: reading it is undefined
Dangling(pm) ==
    /\ pm.range_count > 0
    /\ IF pm.ranges = NULL THEN FALSE ELSE ~heap[pm.ranges].live

\* what the loop of lines 256-261 may read as ranges[0 .. range_count-1]:
\* the array's entries; from a freed array the entries it last held, or
\* anything else
RangeReads(pm) ==
    IF pm.range_count = 0 THEN {<<>>}
    ELSE LET held == SubSeq(heap[pm.ranges].elems, 1, pm.range_count) IN
         IF heap[pm.ranges].live THEN {held}
         ELSE {held,
               [k \in 1 .. pm.range_count |-> [addr |-> SizeMod, length |-> 1]]}

SysReleaseMap ==
    \* the behaviours end with the second sysMapFile call
    /\ call = 1
    /\ \/ pc \in {"done", "released"}
       \/ pc = "idle" /\ pMap = ZeroMap
    /\ nrel' = (IF nrel = 0 THEN 1 ELSE 2)
    /\ relIn' = pMap
    /\ \/ \* a NULL or freed array is read, or an array is freed twice:
          \* the process may die
          /\ Unreadable(pMap) \/ Dangling(pMap)
          /\ pc' = "crashed"
          /\ UNCHANGED <<pMap, heap, mem, unmaps>>
       \/ /\ ~Unreadable(pMap)
          /\ \E rs \in RangeReads(pMap) :
             \E run \in UnmapRuns(mem, rs) :
                /\ unmaps' = run
                /\ mem' = UnmapAll(mem, run)
          /\ heap' = Free(heap, pMap.ranges)
          /\ pMap' = ReleasedHandle(pMap)
          /\ pc' = "released"
    /\ UNCHANGED <<mode, ret, fdOpen, fdCloses, fdOpens, blkLocals, fileSize,
                   extents, nlines, maps, log, cause, faults, fileHist,
                   callVars>>

Next ==
    \/ SysReleaseMap
    \/ SysMapFileRegular
    \/ SysMapFileBlockOpen
    \/ BlockHeader
    \/ BlockCalloc
    \/ BlockReserve
    \/ BlockOpenDevice
    \/ BlockExtent
    \/ BlockFinish

Spec == Init /\ [][Next]_vars

\* ---- sysMapFile called again on the released handle, with the same path ----
\* the caller's first handle as sysReleaseMap found it, and its ranges
FirstRanges ==
    IF relIn.ranges = NULL THEN <<>>
    ELSE SubSeq(heap[relIn.ranges].elems, 1, relIn.range_count)

SysMapFileAgain ==
    /\ pc = "released"
    /\ call = 1 /\ nrel = 1
    /\ mode # "none" /\ ret = 0
    \* the release in between unmapped every range
    /\ \A k \in 1 .. Len(unmaps) : unmaps[k].ok
    /\ first' = [mode |-> mode, fileSize |-> fileSize, size |-> size,
                 blksize |-> blksize, range_count |-> range_count,
                 extents |-> extents, nlines |-> nlines,
                 pMap |-> relIn, ranges |-> FirstRanges,
                 heapLen |-> Len(heap), faults |-> faults]
    /\ call' = 2
    /\ pc' = "idle"
    \* the locals of the first call are gone; its history is kept in first
    /\ mode' = "none"
    /\ size' = 0 /\ blksize' = 0 /\ blocks' = 0 /\ range_count' = 0
    /\ i' = 0 /\ reserve' = 0 /\ next' = 0 /\ remaining_size' = 0
    /\ success' = TRUE
    /\ fileSize' = 0
    /\ extents' = <<>>
    /\ nlines' = -1
    /\ maps' = <<>>
    /\ log' = <<>>
    /\ cause' = "none"
    /\ faults' = {}
    /\ fdOpens' = [d \in DOMAIN fdOpens |-> 0]
    /\ fdCloses' = [d \in DOMAIN fdCloses |-> 0]
    /\ seeks' = NoSeekFailed
    /\ filePos' = 0
    /\ nrel' = 0
    /\ unmaps' = <<>>
    /\ relIn' = ZeroMap
    /\ UNCHANGED <<ret, pMap, heap, mem, fdOpen>>

NextRemap ==
    \/ Next
    \/ SysMapFileAgain

SpecRemap == Init /\ [][NextRemap]_vars

\* ==== properties ===========================================================
RECURSIVE SumLengths(_)
SumLengths(rs) ==
    IF rs = <<>> THEN 0 ELSE rs[1].length + SumLengths(Tail(rs))

\* byte length of an extent line, as a mathematical integer
MathLen(e) == (e.end - e.start) * blksize

RECURSIVE MathSum(_)
MathSum(es) == IF es = <<>> THEN 0 ELSE MathLen(es[1]) + MathSum(Tail(es))

\* ceil(n / b) and the least multiple of b that is >= n, over the integers
CeilDiv(n, b) == (n + b - 1) \div b
CeilMul(n, b) == CeilDiv(n, b) * b

Done == pc = "done"

\* sysMapFile has returned (and sysReleaseMap may have been called since)
Returned == pc \in {"done", "released", "crashed"}
BlockDone == Done /\ mode = "block"
FileDone == Done /\ mode = "file"

\* the Range Descriptors of the handle (ranges is a live pointer)
RangesOf(pm) == heap[pm.ranges].elems

\* the header line was parsed (whether or not it was then accepted)
HeaderSeen ==
    /\ mode = "block"
    /\ pc \notin {"idle", "header"}
    /\ cause \notin {"fopen", "fgets", "header_parse"}

HeaderAccepted == HeaderSeen /\ cause # "header_invalid"

\* every byte this call mapped, by the reservation or by a fixed mapping
MappedByCall ==
    UNION {Span(log[k].a, log[k].n) :
             k \in {j \in 1 .. Len(log) : log[j].op \in {"reserve", "mmap_fixed"}}}

\* C1: in direct-file mode, when the extent resolver fails (empty file or a
\* failed position query), sysMapFile returns nonzero.
C1_ResolverFailureFails ==
    (FileDone /\ cause = "extent_resolver") => ret # 0

\* C2: when the block-map mapper fails, at the return of sysMapFile no byte
\* of the reservation or of an extent mapping is still mapped, and every
\* range array the call allocated has been freed exactly once (none is live,
\* none was freed twice).
C2_FailureUnwinds ==
    (BlockDone /\ ret # 0) =>
        /\ MappedByCall \cap DOMAIN mem = {}
        /\ \A p \in 1 .. Len(heap) : ~heap[p].live /\ heap[p].frees = 1
        /\ Cardinality({j \in 1 .. Len(log) : log[j].op = "free"}) = Len(heap)

\* C2 witness: the second extent is rejected after the first was mapped
C2_Witness ==
    /\ BlockDone /\ ret # 0
    /\ cause = "extent_invalid"
    /\ Len(maps) = 1 /\ maps[1].ok

\* C3 as stated: after a successful block-map mapping the lengths of the
\* Range Descriptors sum to logical_length (pMap.length).
C3_SumIsLogicalLength ==
    (BlockDone /\ ret = 0) => SumLengths(RangesOf(pMap)) = pMap.length

\* C3 amended: after a successful block-map mapping the lengths of the Range
\* Descriptors sum to logical_length rounded up to a whole number of blocks
\* (so they sum to logical_length exactly when it is a multiple of
\* block_size).
C3_SumIsRoundedLength ==
    (BlockDone /\ ret = 0) =>
        /\ SumLengths(RangesOf(pMap)) = CeilMul(pMap.length, blksize)
        /\ (pMap.length % blksize = 0
              => SumLengths(RangesOf(pMap)) = pMap.length)

\* C3 witness: success with a size that is not a multiple of the block size
C3_Witness ==
    /\ BlockDone /\ ret = 0
    /\ size % blksize # 0
    /\ Len(RangesOf(pMap)) = 2

\* C4: when sysMapFile returns 0 the handle has at least one Range
\* Descriptor, ranges is not null, and every Range Descriptor has length > 0.
C4_SuccessHasRanges ==
    (Done /\ ret = 0) =>
        /\ pMap.range_count >= 1
        /\ pMap.ranges # NULL
        /\ Len(RangesOf(pMap)) = pMap.range_count
        /\ \A k \in 1 .. pMap.range_count : RangesOf(pMap)[k].length > 0

\* C5: a regular file of size N > 0, opened at offset 0, whose position
\* queries, mapping call and allocation succeed: sysMapFile returns 0 with
\* logical_length = N, one Range Descriptor of length N at base, and the
\* mapped bytes are the file's bytes 0..N-1.
C5_DirectFileMapsWhole ==
    (FileDone /\ fileSize > 0 /\ faults = {}) =>
        /\ ret = 0
        /\ pMap.length = fileSize
        /\ pMap.range_count = 1
        /\ pMap.ranges # NULL
        /\ RangesOf(pMap) = <<[addr |-> pMap.addr, length |-> fileSize]>>
        /\ \A k \in 0 .. fileSize - 1 :
              /\ pMap.addr + k \in DOMAIN mem
              /\ mem[pMap.addr + k] = <<"file", k>>

\* C5 witness: a file of more than one byte was mapped
C5_Witness ==
    FileDone /\ fileSize > 1 /\ faults = {} /\ ret = 0

\* the Range Descriptors start at base and follow each other without a gap
RangesContiguous ==
    (BlockDone /\ ret = 0) =>
        /\ RangesOf(pMap)[1].addr = pMap.addr
        /\ \A k \in 1 .. pMap.range_count - 1 :
              RangesOf(pMap)[k + 1].addr
                = RangesOf(pMap)[k].addr + RangesOf(pMap)[k].length

\* C6: after a successful block-map mapping ranges[0].address = base, each
\* range starts where the one before ends, and range i is backed by the
\* device bytes starting at block_start_i * block_size of the i-th extent
\* line.
C6_RangesInFileOrder ==
    (BlockDone /\ ret = 0) =>
        /\ RangesOf(pMap)[1].addr = pMap.addr
        /\ \A k \in 1 .. pMap.range_count - 1 :
              RangesOf(pMap)[k + 1].addr
                = RangesOf(pMap)[k].addr + RangesOf(pMap)[k].length
        /\ \A k \in 1 .. pMap.range_count :
              \A b \in 0 .. RangesOf(pMap)[k].length - 1 :
                 mem[RangesOf(pMap)[k].addr + b]
                   = <<"dev", extents[k].start * blksize + b>>

\* the run met no failure of the environment: every open, allocation,
\* reservation, parse and fixed mapping it attempted succeeded
NoEnvFault == cause \in {"none", "extent_invalid", "remaining"}

AllRead == Len(extents) = range_count

\* C7 as stated: with a valid header, all extent_count extent lines parsed
\* and every mapping succeeding, the descriptor is accepted if and only if
\* the byte lengths of its extents sum to ceil(size / blksize) * blksize.
C7_AcceptedIffExactSum ==
    (BlockDone /\ HeaderAccepted /\ NoEnvFault /\ AllRead) =>
        (ret = 0 <=> MathSum(extents) = CeilMul(size, blksize))

\* C7 amended: with a valid header, every extent line parsed and having
\* block_end > block_start, and every mapping succeeding, the descriptor is
\* accepted if and only if all extent_count lines were read and their byte
\* lengths sum to ceil(size / blksize) * blksize; a walk that stops early
\* has already exceeded that sum. On acceptance logical_length = size and
\* range_count = extent_count.
C7_AcceptedIffExactSumOfProperExtents ==
    (/\ BlockDone /\ HeaderAccepted /\ NoEnvFault
     /\ \A k \in 1 .. Len(extents) : extents[k].end > extents[k].start) =>
        /\ ret = 0 <=> (AllRead /\ MathSum(extents) = CeilMul(size, blksize))
        /\ ~AllRead => MathSum(extents) > CeilMul(size, blksize)
        /\ ret = 0 => /\ pMap.length = size
                       /\ pMap.range_count = range_count
                       /\ Len(RangesOf(pMap)) = Len(extents)

\* C7 witness: two extents accepted
C7_Witness ==
    /\ BlockDone /\ ret = 0
    /\ Len(extents) = 2
    /\ extents[1].start > extents[2].start

\* C8: sysMapFile succeeds on a block-map descriptor only if the number of
\* extent lines after the header equals extent_count.
C8_LineCountMatches ==
    (BlockDone /\ ret = 0) => nlines = range_count

\* C9: for every accepted header blocks = ceil(size / blksize) and
\* blocks * blksize does not wrap: it is the least multiple of blksize that
\* is >= size, and it is the size of the reservation and the initial value
\* of the remaining-bytes counter. A header whose product would wrap is
\* rejected.
C9_BlocksProductExact ==
    /\ HeaderAccepted =>
          /\ blocks = CeilDiv(size, blksize)
          /\ blocks * blksize <= SIZE_MAX
          /\ blocks * blksize >= size
          /\ blocks * blksize - size < blksize
          /\ \A j \in 1 .. Len(log) :
                log[j].op = "reserve" => log[j].n = blocks * blksize
          /\ (pc = "loop" /\ i = 0) => remaining_size = blocks * blksize
    /\ (HeaderSeen /\ size > 0 /\ blksize > 0
          /\ CeilMul(size, blksize) > SIZE_MAX) =>
          (Returned /\ ret # 0)

\* C9 witness: the walk starts with a size that is not a whole number of
\* blocks
C9_Witness ==
    /\ pc = "loop" /\ i = 0
    /\ size % blksize # 0
    /\ blocks > 1

\* C10: a header with blksize = 0, size = 0, range_count = 0 or an
\* overflowing block count makes the call fail at once: it never goes on to
\* allocate the range array, reserve address space, open the block device,
\* read an extent line or issue a mapping call.
C10_BadHeaderAcquiresNothing ==
    (/\ HeaderSeen
     /\ \/ blksize = 0 \/ size = 0 \/ range_count = 0
        \/ CeilMul(size, blksize) > SIZE_MAX) =>
        /\ Returned /\ ret # 0
        /\ log = <<>> /\ heap = <<>> /\ mem = EmptyMem
        /\ extents = <<>> /\ maps = <<>> /\ nlines = -1
        /\ "dev" \notin fdOpen /\ fdCloses["dev"] = 0

\* C10 witness: a header with block size zero was rejected
C10_Witness ==
    /\ HeaderSeen /\ Done
    /\ blksize = 0 /\ size > 0 /\ range_count > 0

\* the mapping calls that built the handle, in order
IsMapEvent(e) == e.op \in {"mmap", "mmap_fixed"}
Built == SelectSeq(log, IsMapEvent)

\* sysReleaseMap has returned for the first time since the handle was built
FirstRelease == pc = "released" /\ nrel = 1

\* C11: sysReleaseMap on the handle of a successful sysMapFile issues one
\* munmap per Range Descriptor, with the address and length the mapping was
\* made with; for a block-map handle, when every munmap succeeds, no byte of
\* the reserved span [base, base + blocks*blksize) is mapped afterwards.
C11_ReleaseUnmapsEachRange ==
    (FirstRelease /\ mode # "none" /\ ret = 0) =>
        /\ Len(unmaps) = relIn.range_count
        /\ Len(unmaps) = Len(Built)
        /\ \A k \in 1 .. Len(unmaps) :
              /\ unmaps[k].addr = Built[k].a
              /\ unmaps[k].length = Built[k].n
        /\ (mode = "block" /\ \A k \in 1 .. Len(unmaps) : unmaps[k].ok) =>
              /\ relIn.addr = reserve
              /\ Span(relIn.addr, blocks * blksize) \cap DOMAIN mem = {}

\* C11 witness: a block-map handle of two ranges was released
C11_Witness ==
    /\ FirstRelease /\ mode = "block" /\ ret = 0
    /\ Len(unmaps) = 2
    /\ unmaps[1].ok /\ unmaps[2].ok

\* C12 as stated: after sysReleaseMap returns the handle equals a freshly
\* zeroed handle.
C12_ReleasedHandleIsZeroed ==
    pc = "released" => pMap = ZeroMap

\* C12 amended: after sysReleaseMap returns, range_count = 0 and ranges is
\* null; the base address and logical_length are as they were on entry.
C12_ReleasedHandleHasNoRanges ==
    pc = "released" =>
        /\ pMap.range_count = 0
        /\ pMap.ranges = NULL
        /\ pMap.addr = relIn.addr
        /\ pMap.length = relIn.length

\* C12 witness: a handle of two ranges was released and keeps its base
C12_Witness ==
    /\ FirstRelease
    /\ relIn.range_count = 2
    /\ pMap.addr # 0 /\ pMap.length # 0

\* C13: sysReleaseMap called on a handle that was already released, or on a
\* zeroed handle that was never populated, returns without a fault, issues
\* no munmap, frees nothing and leaves the handle as it was.
C13_ReleaseOfEmptyHandleIsNoOp ==
    [][(/\ pc \in {"released", "idle"}
        /\ pc' \in {"released", "crashed"})
       => (/\ pc' = "released"
           /\ unmaps' = <<>>
           /\ heap' = heap
           /\ mem' = mem
           /\ pMap' = pMap)]_vars

\* C13 witness: a block-map handle was released twice
C13_Witness ==
    /\ pc = "released" /\ nrel = 2
    /\ mode = "block" /\ ret = 0
    /\ relIn.range_count = 0 /\ relIn.addr # 0

\* C14: on every failure of sysMapFD (extent resolver, mapping call,
\* allocation of the one-element range array) the handle is exactly as it was
\* when sysMapFD was called, that is, as memset left it.
C14_FailedMapFDLeavesHandle ==
    (FileDone /\ cause \in {"extent_resolver", "mmap", "malloc"}) =>
        pMap = ZeroMap

\* C15: at every return of sysMapFile each descriptor the call opened has
\* been closed exactly once: none is open and none was closed twice.
C15_DescriptorsClosedOnce ==
    Done =>
        /\ fdOpen = {}
        /\ \A d \in DOMAIN fdOpens :
              /\ fdOpens[d] <= 1
              /\ fdCloses[d] = fdOpens[d]

\* C15 witness: a block map failed after the stream and the device were opened
C15_Witness ==
    /\ BlockDone /\ ret # 0
    /\ fdOpens["mapf"] = 1 /\ fdOpens["dev"] = 1
    /\ cause \notin {"open_dev", "none"}

\* C16: when getFileStartAndLength returns, with success or failure and
\* whichever lseek64 failed, the descriptor's position is the one it had on
\* entry (0: sysMapFile has just opened the file).
C16_PositionRestored ==
    (FileDone /\ fdOpens["file"] = 1) => filePos = 0

\* the second sysMapFile call on the handle has returned
SecondDone == Done /\ call = 2

\* C17: sysMapFile; sysReleaseMap; sysMapFile on the same input and the same
\* handle, both calls succeeding with no failing system call: the second
\* handle has the range_count, the per-range lengths and the logical_length
\* of the first, and every field of it was written by the second call (the
\* range array is a new allocation filled by the second call, the base is
\* the address the second call mapped, an empty handle is all zero).
C17_RemapIsEquivalent ==
    (SecondDone /\ ret = 0 /\ faults = {} /\ first.faults = {}) =>
        /\ pMap.range_count = first.pMap.range_count
        /\ pMap.length = first.pMap.length
        /\ IF pMap.ranges = NULL
           THEN /\ first.ranges = <<>>
                /\ pMap = ZeroMap
           ELSE /\ pMap.ranges > first.heapLen
                /\ heap[pMap.ranges].live
                /\ Len(RangesOf(pMap)) = Len(first.ranges)
                /\ \A k \in 1 .. Len(first.ranges) :
                      RangesOf(pMap)[k].length = first.ranges[k].length
                /\ RangesOf(pMap) =
                      [k \in 1 .. Len(Built) |->
                          [addr |-> Built[k].a, length |-> Built[k].n]]
                /\ pMap.addr = Built[1].a

\* C17 witness: a block map of two ranges was mapped, released and mapped again
C17_Witness ==
    /\ SecondDone /\ ret = 0
    /\ mode = "block"
    /\ Len(first.ranges) = 2
    /\ pMap.range_count = 2

\* the fixed-address mapping requests issued so far, as a sequence of lengths
RECURSIVE SumLens(_)
SumLens(ms) == IF ms = <<>> THEN 0 ELSE ms[1].len + SumLens(Tail(ms))

\* the requests that succeeded
MapOk(m) == m.ok

\* C18: every MAP_FIXED request of sysMapBlockFile lies inside the span
\* reserved earlier in the same call: it starts at or after reserve, ends at
\* or before reserve + blocks*blksize, its length is (end - start) * blksize
\* without wraparound and at most the bytes then remaining; the remaining
\* counter never underflows; no fixed mapping precedes the reservation.
C18_FixedMappingsInsideReservation ==
    (mode = "block" /\ maps # <<>>) =>
        /\ \E r \in 1 .. Len(log) :
              /\ log[r] = Ev("reserve", reserve, blocks * blksize)
              /\ \A j \in 1 .. Len(log) : log[j].op = "mmap_fixed" => r < j
        /\ \A k \in 1 .. Len(maps) :
              LET before == SumLens(SubSeq(maps, 1, k - 1)) IN
              /\ maps[k].len = MathLen(extents[k])
              /\ maps[k].addr = reserve + before
              /\ maps[k].addr >= reserve
              /\ maps[k].addr + maps[k].len <= reserve + blocks * blksize
              /\ maps[k].len <= blocks * blksize - before
        /\ remaining_size = blocks * blksize - SumLens(SelectSeq(maps, MapOk))
        /\ remaining_size >= 0

\* C18 witness: the second of two fixed mappings was requested
C18_Witness ==
    /\ mode = "block" /\ pc \in {"loop", "after"}
    /\ Len(maps) = 2
    /\ maps[2].addr > reserve

\* C19: at every return of sysMapFile and of sysReleaseMap either
\* range_count = 0, or ranges points to a live array of range_count entries
\* each naming a region that is mapped.
C19_HandleRefersToLiveRanges ==
    pc \in {"done", "released"} =>
        \/ pMap.range_count = 0
        \/ IF pMap.ranges = NULL THEN FALSE
           ELSE /\ heap[pMap.ranges].live
                /\ Len(RangesOf(pMap)) = pMap.range_count
                /\ \A k \in 1 .. pMap.range_count :
                      /\ RangesOf(pMap)[k].length > 0
                      /\ Span(RangesOf(pMap)[k].addr, RangesOf(pMap)[k].length)
                            \subseteq DOMAIN mem

\* C20: for every extent sysMapBlockFile maps, the device offset passed to
\* mmap is the mathematical product block_start * blksize, and is not
\* negative.
C20_DeviceOffsetIsProduct ==
    \A k \in 1 .. Len(maps) :
        /\ maps[k].off = extents[k].start * blksize
        /\ maps[k].off >= 0

\* C21: in sysReleaseMap a munmap that fails does not stop the teardown:
\* munmap is still called for every range of the handle, later ranges
\* included, each range whose munmap succeeded is no longer mapped, the range
\* array is freed, and the handle has range_count = 0 and ranges null.
C21_FailedUnmapDoesNotStopTeardown ==
    (FirstRelease /\ \E k \in 1 .. Len(unmaps) : ~unmaps[k].ok) =>
        /\ relIn.ranges # NULL
        /\ Len(unmaps) = relIn.range_count
        /\ \A j \in 1 .. Len(unmaps) :
              /\ unmaps[j].addr = heap[relIn.ranges].elems[j].addr
              /\ unmaps[j].length = heap[relIn.ranges].elems[j].length
              /\ unmaps[j].ok =>
                    Span(unmaps[j].addr, unmaps[j].length) \cap DOMAIN mem = {}
        /\ ~heap[relIn.ranges].live
        /\ pMap.range_count = 0
        /\ pMap.ranges = NULL

\* C21 witness: the first munmap of two failed and the second succeeded
C21_Witness ==
    /\ FirstRelease
    /\ Len(unmaps) = 2
    /\ ~unmaps[1].ok /\ unmaps[2].ok

TypeOK ==
    /\ pc \in {"idle", "header", "calloc", "reserve", "open", "loop", "after",
              "done", "released", "crashed"}
    /\ ret \in {0, -1}
    /\ size \in 0 .. SIZE_MAX
    /\ blocks \in 0 .. SIZE_MAX
    /\ remaining_size \in 0 .. SIZE_MAX

====
